---- MODULE Spec2Model ----
(***************************************************************************)
(* Model of the Reddit brand-sentiment repository: the SQLite store        *)
(* (src/src/db_utils.py), the fetcher (src/src/reddit_scraper.py), the     *)
(* scorer (src/src/sentiment_analysis.py), the update pipeline             *)
(* (src/notebooks/poc_exploration.py) and the dashboard's main flow        *)
(* (src/app.py).                                                           *)
(*                                                                         *)
(* A DataFrame is a sequence of records (its rows).  Sentiment scores are  *)
(* VADER compound scores, which are rounded to four decimals: they are     *)
(* integers in units of 1/10000, so 0.05 is 500.  The columns author and   *)
(* url are carried by no condition of the code and are left out of a row.  *)
(***************************************************************************)
EXTENDS Integers, Sequences, FiniteSets, TLC

\* ------------------------------------------------------------------ bounds
\* Number of invocations of the pipeline script that are explored.
MaxRuns == 2
\* The dashboard is opened until this many pipeline invocations have started.
MaxDashRuns == 1
\* limit_per_subreddit handed to subreddit.search (POST_LIMIT, 200 in the script).
POST_LIMIT == 1

\* ------------------------------------------------------- program constants
POS_THRESHOLD == 500
NEG_THRESHOLD == -500
PLACEHOLDER_SCORE == 0
SECONDS_PER_DAY == 86400

BRANDS == <<"NVIDIA", "AMD">>
\* The script tracks five subreddits; two are kept, which is enough for the
\* outer loop to run more than once.
SUBREDDITS == <<"hardware", "gaming">>

\* ------------------------------------------------- the external source
\* The posts Reddit can return.  A post lives in one subreddit and has one
\* text and one creation instant (epoch seconds).
PostIds == {"A", "B", "C"}

PostSubreddit(p) ==
    CASE p = "A" -> "hardware"
      [] p = "B" -> "hardware"
      [] p = "C" -> "gaming"

\* The tracked brands a post mentions: a search for a brand finds the post
\* only when it mentions the brand.  Post A mentions both.
PostBrands(p) ==
    CASE p = "A" -> {"NVIDIA", "AMD"}
      [] p = "B" -> {"AMD"}
      [] p = "C" -> {"NVIDIA"}

PostText(p) ==
    CASE p = "A" -> "amazing product, love it"
      [] p = "B" -> "terrible, broke immediately"
      [] p = "C" -> "it arrived on Tuesday"

PostCreated(p) ==
    CASE p = "A" -> 3600
      [] p = "B" -> 2 * SECONDS_PER_DAY + 7200
      [] p = "C" -> 2 * SECONDS_PER_DAY + 86399

\* analyzer.polarity_scores(text)['compound'], an opaque external scorer: a
\* fixed function of the text.  The three texts sit on the two thresholds
\* and just inside the neutral band.
Compound(text) ==
    CASE text = "amazing product, love it"    -> 500
      [] text = "terrible, broke immediately" -> -500
      [] text = "it arrived on Tuesday"       -> 499
      [] OTHER                                -> 0

\* ------------------------------------------------------------- helpers
Range(s) == {s[i] : i \in 1..Len(s)}

Ids(df) == {df[i].id : i \in 1..Len(df)}

IsPrefix(s, t) == Len(s) <= Len(t) /\ SubSeq(t, 1, Len(s)) = s

\* Duplicate-free sequences over S of length at most n.
RECURSIVE SeqsUpTo(_, _)
SeqsUpTo(S, n) ==
    IF n = 0 THEN {<<>>}
    ELSE LET shorter == SeqsUpTo(S, n - 1)
         IN  shorter \cup {Append(s, x) : s \in shorter, x \in S}

DistinctSeqsUpTo(S, n) ==
    {s \in SeqsUpTo(S, n) : Cardinality(Range(s)) = Len(s)}

\* df.empty
Empty(df) == df = <<>>

\* df.columns: a frame built from a list of dicts has the keys of the dicts.
Columns(df) == IF df = <<>> THEN {} ELSE DOMAIN df[1]

\* ------------------------------------------------ sentiment_analysis.py
get_sentiment_label_strict(score) ==
    IF score > POS_THRESHOLD THEN "Positive"
    ELSE IF score < NEG_THRESHOLD THEN "Negative"
    ELSE "Neutral"

get_sentiment_label(score) ==
    IF score >= POS_THRESHOLD THEN "Positive"
    ELSE IF score <= NEG_THRESHOLD THEN "Negative"
    ELSE "Neutral"

\* add_sentiment_scores: raises ValueError without a 'text' column, else
\* overwrites sentiment_score and sentiment_label of every row.
add_sentiment_scores(df) ==
    IF "text" \notin Columns(df)
    THEN [raised |-> TRUE, df |-> df]
    ELSE [raised |-> FALSE,
          df |-> [i \in 1..Len(df) |->
                    [df[i] EXCEPT !.sentiment_score = Compound(df[i].text),
                                  !.sentiment_label =
                                      get_sentiment_label(Compound(df[i].text))]]]

\* --------------------------------------------------- reddit_scraper.py
NumPairs == Len(SUBREDDITS) * Len(BRANDS)

\* The i-th (subreddit, brand) pair: outer loop over subreddits, inner over brands.
PairAt(i) ==
    [subreddit |-> SUBREDDITS[((i - 1) \div Len(BRANDS)) + 1],
     brand     |-> BRANDS[((i - 1) % Len(BRANDS)) + 1]]

\* What subreddit.search(query=brand, limit=..., sort='new') can yield: at
\* most `limit` posts of that subreddit that mention the brand, no post twice.
SearchResults(sub_name, brand, limit) ==
    DistinctSeqsUpTo({p \in PostIds : /\ PostSubreddit(p) = sub_name
                                      /\ brand \in PostBrands(p)}, limit)

\* The dict appended to all_posts_data for one post.
MentionRow(p, brand, sub_name) ==
    [id              |-> p,
     brand           |-> brand,
     text            |-> PostText(p),
     subreddit       |-> sub_name,
     created_utc     |-> PostCreated(p),
     sentiment_score |-> PLACEHOLDER_SCORE,
     sentiment_label |-> "Neutral"]

\* The body of the try block for one pair: every post the listing yielded
\* before it ended (or raised) has been appended to all_posts_data.
AppendYielded(all, yielded, pair) ==
    all \o [i \in 1..Len(yielded) |->
              MentionRow(yielded[i], pair.brand, pair.subreddit)]

\* ------------------------------------------------------------ db_utils.py
\* pd.to_datetime(created_utc, unit='s'): epoch seconds to a timestamp,
\* held as its calendar day and its second of the day.
to_datetime(secs) ==
    [day |-> secs \div SECONDS_PER_DAY, second |-> secs % SECONDS_PER_DAY]

\* load_data with the failure propagating instead of being caught.
load_data_uncaught(file, table, readFails) ==
    IF file = "absent"
    THEN [raised |-> FALSE, failed |-> FALSE, df |-> <<>>]
    ELSE IF file = "notable" \/ readFails
    THEN [raised |-> TRUE, failed |-> TRUE, df |-> <<>>]
    ELSE [raised |-> FALSE, failed |-> FALSE,
          df |-> [i \in 1..Len(table) |->
                    [table[i] EXCEPT !.created_utc = to_datetime(@)]]]

\* load_data: an empty frame when the file is absent; an empty frame when
\* the read raises (the table is absent, or the read fails: readFails),
\* the exception being caught and printed; else every row, created_utc
\* converted.  `failed` records that the except branch ran.
load_data(file, table, readFails) ==
    IF file = "absent"
    THEN [raised |-> FALSE, failed |-> FALSE, df |-> <<>>]
    ELSE IF file = "notable" \/ readFails
    THEN [raised |-> FALSE, failed |-> TRUE, df |-> <<>>]
    ELSE [raised |-> FALSE, failed |-> FALSE,
          df |-> [i \in 1..Len(table) |->
                    [table[i] EXCEPT !.created_utc = to_datetime(@)]]]

\* What a write that raised leaves of the database file.  connect has
\* created the file; to_sql creates the table in a transaction of its own
\* and inserts the rows in a second one, rolled back when it raises.
\* fault = "create": it raised before the table existed;
\* fault = "insert": it raised while inserting.
FileAfterFailedWrite(file, fault) ==
    IF fault = "insert" THEN "table"
    ELSE IF file = "absent" THEN "notable" ELSE file

\* save_data with to_sql(if_exists='replace').
save_data_replace(file, table, df, fault) ==
    IF Empty(df)
    THEN [raised |-> FALSE, result |-> "empty", file |-> file, table |-> table]
    ELSE IF fault # "none"
    THEN [raised |-> FALSE, result |-> "failed",
          file |-> FileAfterFailedWrite(file, fault), table |-> table]
    ELSE [raised |-> FALSE, result |-> "saved", file |-> "table", table |-> df]

\* save_data with the exception of to_sql propagating.
save_data_uncaught(file, table, df, fault) ==
    IF Empty(df)
    THEN [raised |-> FALSE, result |-> "empty", file |-> file, table |-> table]
    ELSE IF fault # "none"
    THEN [raised |-> TRUE, result |-> "failed",
          file |-> FileAfterFailedWrite(file, fault), table |-> table]
    ELSE [raised |-> FALSE, result |-> "saved",
          file |-> "table", table |-> table \o df]

\* save_data: nothing for an empty frame; else connect and
\* to_sql(if_exists='append'), which creates the table on the first write and
\* appends every row.  An exception of to_sql (fault # "none") is caught and
\* printed: no row is written and nothing is raised.
save_data(file, table, df, fault) ==
    IF Empty(df)
    THEN [raised |-> FALSE, result |-> "empty", file |-> file, table |-> table]
    ELSE IF fault # "none"
    THEN [raised |-> FALSE, result |-> "failed",
          file |-> FileAfterFailedWrite(file, fault), table |-> table]
    ELSE [raised |-> FALSE, result |-> "saved",
          file |-> "table", table |-> table \o df]

\* ------------------------------------------------- poc_exploration.py
\* latest_df[~latest_df['id'].isin(existing_ids)]
NewPostsKeepAll(latest, ids) == latest

\* The filter on the wrong column: latest_df[~latest_df['brand'].isin(existing_ids)]
NewPostsWrongColumn(latest, ids) ==
    SelectSeq(latest, LAMBDA r : r.brand \notin ids)

NewPosts(latest, ids) == SelectSeq(latest, LAMBDA r : r.id \notin ids)

\* if latest_df.empty: return
AfterFetchNoExit(latest) == "Dedup"

AfterFetch(latest) == IF Empty(latest) THEN "NoNewData" ELSE "Dedup"

\* if new_posts_df.empty: return
AfterDedupNoExit(new_posts) == "Score"

AfterDedup(new_posts) == IF Empty(new_posts) THEN "NoNewData" ELSE "Score"

\* existing_ids never built from the loaded frame.
ExistingIdsNone(existing) == {}

\* set(existing_df['id']) if not existing_df.empty else set()
ExistingIds(existing_df) == IF Empty(existing_df) THEN {} ELSE Ids(existing_df)

VARIABLES
    dbFile,         \* "absent" | "notable" (file without the mentions table) | "table"
    store,          \* the rows of the mentions table, in insertion order
    pc,             \* the pipeline's position
    runs,           \* invocations of the pipeline so far
    existing_ids,   \* run_update_pipeline: existing_ids
    all_posts_data, \* fetch_reddit_mentions: all_posts_data, then latest_df
    pairIdx,        \* fetch_reddit_mentions: pairs processed so far
    pairRaised,     \* whether the pair processed last ended in the except branch
    new_posts_df,   \* run_update_pipeline: new_posts_df
    analyzed_df,    \* run_update_pipeline: analyzed_df
    existing_df,    \* run_update_pipeline: existing_df
    readFailed,     \* whether this run's load_data caught a failed read of the table
    saveResult,     \* "none" | "empty" | "saved" | "failed": what save_data did this run
    storeAtStart,   \* the table when this run started
    fileAtStart,    \* dbFile when this run started
    prevLatest,     \* latest_df of the previous run
    prevSave,       \* saveResult of the previous run
    dpc,            \* the dashboard script's position
    cache,          \* st.cache_data entry of load_data_from_file (valid: it holds one)
    df,             \* main: df
    last_updated,   \* main: last_updated
    filtered_df     \* main: filtered_df

vars == <<dbFile, store, pc, runs, existing_df, existing_ids, all_posts_data, pairIdx,
          pairRaised, new_posts_df, analyzed_df, readFailed, saveResult,
          storeAtStart, fileAtStart, prevLatest, prevSave,
          dpc, cache, df, last_updated, filtered_df>>

pipeVars == <<dbFile, store, pc, runs, existing_df, existing_ids,
              all_posts_data, pairIdx, pairRaised, new_posts_df, analyzed_df,
              readFailed, saveResult, storeAtStart, fileAtStart, prevLatest,
              prevSave>>

dashVars == <<dpc, cache, df, last_updated, filtered_df>>

latest_df == all_posts_data

\* The cache of load_data_from_file without an entry.
NoEntry == [valid |-> FALSE, df |-> <<>>, last_updated |-> "None"]

Terminal == {"NoNewData", "Completed", "Crashed"}

Init ==
    /\ dbFile = "absent"
    /\ store = <<>>
    /\ pc = "Idle"
    /\ runs = 0
    /\ existing_df = <<>>
    /\ existing_ids = {}
    /\ all_posts_data = <<>>
    /\ pairIdx = 0
    /\ pairRaised = FALSE
    /\ new_posts_df = <<>>
    /\ analyzed_df = <<>>
    /\ readFailed = FALSE
    /\ saveResult = "none"
    /\ storeAtStart = <<>>
    /\ fileAtStart = "absent"
    /\ prevLatest = <<>>
    /\ prevSave = "none"
    /\ dpc = "Off"
    /\ cache = NoEntry
    /\ df = <<>>
    /\ last_updated = "None"
    /\ filtered_df = <<>>

\* python notebooks/poc_exploration.py: a new process enters run_update_pipeline.
StartRun ==
    /\ pc \in Terminal \cup {"Idle"}
    /\ dpc = "Off"
    /\ runs < MaxRuns
    /\ runs' = runs + 1
    /\ pc' = "LoadExisting"
    /\ prevLatest' = latest_df
    /\ prevSave' = saveResult
    /\ storeAtStart' = store
    /\ fileAtStart' = dbFile
    /\ existing_df' = <<>>
    /\ existing_ids' = {}
    /\ all_posts_data' = <<>>
    /\ pairIdx' = 0
    /\ pairRaised' = FALSE
    /\ new_posts_df' = <<>>
    /\ analyzed_df' = <<>>
    /\ readFailed' = FALSE
    /\ saveResult' = "none"
    /\ UNCHANGED <<dbFile, store>>
    /\ UNCHANGED dashVars

\* [Step 1/5] existing_df = load_data(); existing_ids = ...
\* readFails: the read of an existing table raises (the except branch of
\* load_data for a reason other than a missing table).
LoadExisting ==
    /\ pc = "LoadExisting"
    /\ \E readFails \in BOOLEAN :
         LET r == load_data(dbFile, store, readFails)
         IN  /\ (readFails => dbFile = "table")
             /\ readFailed' = readFails
             /\ IF r.raised
                THEN /\ pc' = "Crashed"
                     /\ UNCHANGED <<existing_df, existing_ids>>
                ELSE /\ pc' = "FetchLatest"
                     /\ existing_df' = r.df
                     /\ existing_ids' = ExistingIds(r.df)
    /\ UNCHANGED <<dbFile, store, runs, all_posts_data, pairIdx, pairRaised,
                   new_posts_df, analyzed_df, saveResult, storeAtStart,
                   fileAtStart, prevLatest, prevSave>>
    /\ UNCHANGED dashVars

\* [Step 2/5] get_reddit_instance() raises when the credentials are not
\* configured: nothing catches it and the run ends.
GetRedditInstanceRaises ==
    /\ pc = "FetchLatest"
    /\ pairIdx = 0
    /\ pc' = "Crashed"
    /\ UNCHANGED <<dbFile, store, runs, existing_df, existing_ids, all_posts_data, pairIdx,
                   pairRaised, new_posts_df, analyzed_df, readFailed,
                   saveResult, storeAtStart, fileAtStart, prevLatest,
                   prevSave>>
    /\ UNCHANGED dashVars

\* One iteration of the inner loop of fetch_reddit_mentions: the listing of
\* the pair yields `yielded` and then either ends or raises.
FetchPair ==
    /\ pc = "FetchLatest"
    /\ pairIdx < NumPairs
    /\ LET pair == PairAt(pairIdx + 1)
       IN  \E yielded \in SearchResults(pair.subreddit, pair.brand, POST_LIMIT),
              raises \in BOOLEAN :
             /\ all_posts_data' = AppendYielded(all_posts_data, yielded, pair)
             /\ pairRaised' = raises
    /\ pairIdx' = pairIdx + 1
    /\ UNCHANGED <<dbFile, store, pc, runs, existing_df, existing_ids, new_posts_df,
                   analyzed_df, readFailed, saveResult, storeAtStart,
                   fileAtStart, prevLatest, prevSave>>
    /\ UNCHANGED dashVars

\* return pd.DataFrame(all_posts_data); if latest_df.empty: return
FetchReturn ==
    /\ pc = "FetchLatest"
    /\ pairIdx = NumPairs
    /\ pc' = AfterFetch(latest_df)
    /\ pairRaised' = FALSE
    /\ UNCHANGED <<dbFile, store, runs, existing_df, existing_ids, all_posts_data, pairIdx,
                   new_posts_df, analyzed_df, readFailed,
                   saveResult, storeAtStart, fileAtStart, prevLatest,
                   prevSave>>
    /\ UNCHANGED dashVars

\* [Step 3/5] new_posts_df = ...; if new_posts_df.empty: return
Dedup ==
    /\ pc = "Dedup"
    /\ new_posts_df' = NewPosts(latest_df, existing_ids)
    /\ pc' = AfterDedup(new_posts_df')
    /\ UNCHANGED <<dbFile, store, runs, existing_df, existing_ids, all_posts_data, pairIdx,
                   pairRaised, analyzed_df, readFailed, saveResult,
                   storeAtStart, fileAtStart, prevLatest, prevSave>>
    /\ UNCHANGED dashVars

\* [Step 4/5] analyzed_df = add_sentiment_scores(new_posts_df.copy())
Score ==
    /\ pc = "Score"
    /\ LET r == add_sentiment_scores(new_posts_df)
       IN  IF r.raised
           THEN /\ pc' = "Crashed"
                /\ UNCHANGED analyzed_df
           ELSE /\ pc' = "Persist"
                /\ analyzed_df' = r.df
    /\ UNCHANGED <<dbFile, store, runs, existing_df, existing_ids, all_posts_data, pairIdx,
                   pairRaised, new_posts_df, readFailed, saveResult,
                   storeAtStart, fileAtStart, prevLatest, prevSave>>
    /\ UNCHANGED dashVars

\* [Step 5/5] save_data(analyzed_df); print("--- Pipeline finished successfully! ---")
Persist ==
    /\ pc = "Persist"
    /\ \E fault \in {"none", "create", "insert"} :
         LET r == save_data(dbFile, store, analyzed_df, fault)
         IN  /\ dbFile' = r.file
             /\ store' = r.table
             /\ saveResult' = r.result
             /\ pc' = IF r.raised THEN "Crashed" ELSE "Completed"
    /\ UNCHANGED <<runs, existing_df, existing_ids, all_posts_data, pairIdx, pairRaised,
                   new_posts_df, analyzed_df, readFailed, storeAtStart,
                   fileAtStart, prevLatest, prevSave>>
    /\ UNCHANGED dashVars

\* ------------------------------------------------------------------ app.py
\* The dashboard is a second process that only reads the store.  A script
\* run starts while no pipeline run is under way: the table changes in the
\* single step Persist, so a read at any other moment sees one of the tables
\* seen here.

SENTIMENT_OPTIONS == {"Positive", "Neutral", "Negative"}

\* A row with the derived column: df['date'] = df['created_utc'].dt.date
WithDate(r) ==
    [f \in DOMAIN r \cup {"date"} |->
        IF f = "date" THEN r.created_utc.day ELSE r[f]]

\* load_data_from_file: (empty, None) when the file is absent, when load_data
\* returns an empty frame or when anything raises; else the frame with its
\* date column and the file's modification time.
load_data_from_file(file, table, readFails) ==
    IF file = "absent"
    THEN [df |-> <<>>, last_updated |-> "None"]
    ELSE LET r == load_data(file, table, readFails)
         IN  IF r.raised \/ Empty(r.df)
             THEN [df |-> <<>>, last_updated |-> "None"]
             ELSE [df |-> [i \in 1..Len(r.df) |-> WithDate(r.df[i])],
                   last_updated |-> "mtime"]

\* if df.empty: st.error(...); [retry button]; st.stop()
AfterLoad(frame) == IF Empty(frame) THEN "NoData" ELSE "Filters"

\* if filtered_df.empty: st.warning(...); st.stop()
AfterFilterNoGuard(filtered) == "Render"

AfterFilter(filtered) == IF Empty(filtered) THEN "Warning" ELSE "Render"

\* sorted(df[col].unique()), as a set
Unique(frame, col) == {frame[i][col] : i \in 1..Len(frame)}

MinDate(frame) ==
    CHOOSE d \in Unique(frame, "date") : \A e \in Unique(frame, "date") : d <= e

MaxDate(frame) ==
    CHOOSE d \in Unique(frame, "date") : \A e \in Unique(frame, "date") : d >= e

\* What st.sidebar.date_input can return between min_value and max_value: a
\* start and an end, or a start alone while the range is being picked.
DateRanges(lo, hi) ==
    {<<s, e>> : s \in lo..hi, e \in lo..hi} \cup {<<s>> : s \in lo..hi}

\* The widget returns an end that is not before the start.
Ordered(date_range) == Len(date_range) = 2 => date_range[1] <= date_range[2]

\* filtered_df = df[brand & subreddit & date >= start & date <= end & sentiment]
ApplyFilters(frame, brands, subs, start_date, end_date, sentiments) ==
    SelectSeq(frame, LAMBDA r : /\ r.brand \in brands
                                /\ r.subreddit \in subs
                                /\ r.date >= start_date
                                /\ r.date <= end_date
                                /\ r.sentiment_label \in sentiments)

\* streamlit runs app.py from the top: the page is opened or a widget changed.
DashStart ==
    /\ dpc = "Off"
    /\ pc \in Terminal \cup {"Idle"}
    /\ runs <= MaxDashRuns
    /\ dpc' = "Load"
    /\ UNCHANGED <<cache, df, last_updated, filtered_df>>
    /\ UNCHANGED pipeVars

\* df, last_updated = load_data_from_file(), served from the cache when it
\* holds an entry; then the no-data guard.
DashLoad ==
    /\ dpc = "Load"
    /\ \E readFails \in BOOLEAN :
         LET r == IF cache.valid
                  THEN [df |-> cache.df, last_updated |-> cache.last_updated]
                  ELSE load_data_from_file(dbFile, store, readFails)
         IN  /\ (readFails => (dbFile = "table" /\ ~cache.valid))
             /\ cache' = [valid |-> TRUE, df |-> r.df,
                          last_updated |-> r.last_updated]
             /\ df' = r.df
             /\ last_updated' = r.last_updated
             /\ dpc' = AfterLoad(r.df)
    /\ UNCHANGED filtered_df
    /\ UNCHANGED pipeVars

\* if st.button("Retry Loading Data"): st.cache_data.clear(); st.rerun()
DashRetry ==
    /\ dpc = "NoData"
    /\ cache' = NoEntry
    /\ dpc' = "Load"
    /\ df' = <<>>
    /\ last_updated' = "None"
    /\ UNCHANGED filtered_df
    /\ UNCHANGED pipeVars

\* The sidebar widgets and the filter; then the no-match guard.  Reading a
\* column of a frame without rows (and so without columns) raises KeyError.
DashFilter ==
    /\ dpc = "Filters"
    /\ IF Empty(df)
       THEN /\ dpc' = "Raised"
            /\ UNCHANGED filtered_df
       ELSE \E selected_brands \in SUBSET Unique(df, "brand"),
               selected_subreddits \in SUBSET Unique(df, "subreddit"),
               date_range \in {d \in DateRanges(MinDate(df), MaxDate(df)) :
                                   Ordered(d)},
               selected_sentiments \in SUBSET SENTIMENT_OPTIONS :
              LET start_date == IF Len(date_range) = 2
                                THEN date_range[1] ELSE MinDate(df)
                  end_date   == IF Len(date_range) = 2
                                THEN date_range[2] ELSE MaxDate(df)
              IN  /\ filtered_df' =
                         ApplyFilters(df, selected_brands, selected_subreddits,
                                      start_date, end_date, selected_sentiments)
                  /\ dpc' = AfterFilter(filtered_df')
    /\ UNCHANGED <<cache, df, last_updated>>
    /\ UNCHANGED pipeVars

\* The script run is over (st.stop(), the end of main, or the exception
\* shown): its locals are gone, the cache entry stays.
DashEnd ==
    /\ dpc \in {"NoData", "Warning", "Render", "Raised"}
    /\ dpc' = "Off"
    /\ df' = <<>>
    /\ last_updated' = "None"
    /\ filtered_df' = <<>>
    /\ UNCHANGED cache
    /\ UNCHANGED pipeVars

\* @st.cache_data(ttl=300): the entry expires.
CacheExpire ==
    /\ dpc = "Off"
    /\ cache.valid
    /\ cache' = NoEntry
    /\ UNCHANGED <<dpc, df, last_updated, filtered_df>>
    /\ UNCHANGED pipeVars

Next ==
    \/ StartRun
    \/ LoadExisting
    \/ GetRedditInstanceRaises
    \/ FetchPair
    \/ FetchReturn
    \/ Dedup
    \/ Score
    \/ Persist
    \/ DashStart
    \/ DashLoad
    \/ DashRetry
    \/ DashFilter
    \/ DashEnd
    \/ CacheExpire

Spec == Init /\ [][Next]_vars

\* ================================================================ claims
\* The rows this run has appended to the table.
AppendedRows == SubSeq(store, Len(storeAtStart) + 1, Len(store))

\* A row with its sentiment fields put back to the fetcher's placeholders.
Unscored(r) ==
    [r EXCEPT !.sentiment_score = 0, !.sentiment_label = "Neutral"]

\* The fetched rows whose id is not in the table as it was at the start of the run.
FetchedAndUnseen ==
    SelectSeq(latest_df, LAMBDA r : \A i \in 1..Len(storeAtStart) :
                                        storeAtStart[i].id # r.id)

RunEnded == pc \in {"NoNewData", "Completed", "Crashed"}

C2_AppendOnly == IsPrefix(storeAtStart, store)

C2_Witness ==
    /\ pc = "Completed"
    /\ ~Empty(storeAtStart)
    /\ Len(store) > Len(storeAtStart)

C4_FailedPairContributesNothing ==
    /\ (pc = "FetchLatest" /\ pairIdx >= 1 /\ pairRaised) =>
           \A i \in 1..Len(all_posts_data) :
               ~(/\ all_posts_data[i].subreddit = PairAt(pairIdx).subreddit
                 /\ all_posts_data[i].brand = PairAt(pairIdx).brand)
    /\ (pc \in {"Dedup", "Score", "Persist", "Completed", "NoNewData"}) =>
           pairIdx = NumPairs

\* C5 (as claimed): a run whose append raised in to_sql does not reach Completed.
C5_FailedAppendEndsRun == saveResult = "failed" => pc # "Completed"

\* C5 (amended): a run whose append raised in to_sql has the exception caught
\* in save_data and reaches Completed all the same.
C5_FailedAppendIsAbsorbed == saveResult = "failed" => pc = "Completed"

C5_Witness ==
    /\ saveResult = "failed"
    /\ pc = "Completed"
    /\ ~Empty(analyzed_df)

\* C6: the steps of a run are visited in the order LoadExisting, FetchLatest,
\* Dedup, Score, Persist, each entered once from the step before it; Score is
\* entered only with a non-empty deduplicated frame; a run leaves a step only
\* for the next step, for NoNewData (from FetchLatest or Dedup), for Completed
\* (from Persist) or by an unhandled exception; a step is entered again only
\* by a new invocation.
C6_StepOrder ==
    [][\/ pc' = pc
       \/ pc \in {"Idle", "NoNewData", "Completed", "Crashed"}
            /\ pc' = "LoadExisting" /\ runs' = runs + 1
       \/ pc = "LoadExisting" /\ pc' \in {"FetchLatest", "Crashed"}
       \/ pc = "FetchLatest" /\ pc' \in {"Dedup", "NoNewData", "Crashed"}
       \/ pc = "Dedup" /\ pc' = "Score" /\ ~Empty(new_posts_df')
       \/ pc = "Dedup" /\ pc' = "NoNewData"
       \/ pc = "Score" /\ pc' \in {"Persist", "Crashed"}
       \/ pc = "Persist" /\ pc' \in {"Completed", "Crashed"}]_vars

C6_Witness ==
    /\ pc = "Completed"
    /\ runs = 2
    /\ prevSave = "saved"
    /\ saveResult = "saved"

\* C7: a run whose fetch result is empty, or whose fetched ids are all in
\* existing_ids, ends in NoNewData once Dedup is past, and a run in NoNewData
\* has scored nothing, has not called save_data and has left the database
\* file and the table as they were.
C7_NoNewDataLeavesStore ==
    /\ pc = "NoNewData" =>
           /\ store = storeAtStart
           /\ dbFile = fileAtStart
           /\ Empty(analyzed_df)
           /\ saveResult = "none"
    /\ (/\ pairIdx = NumPairs
        /\ pc \notin {"FetchLatest", "Dedup"}
        /\ Ids(latest_df) \subseteq existing_ids) => pc = "NoNewData"
    /\ (pairIdx = NumPairs /\ pc # "FetchLatest" /\ Empty(latest_df)) =>
           pc = "NoNewData"

C7_Witness ==
    /\ pc = "NoNewData"
    /\ ~Empty(latest_df)
    /\ existing_ids # {}
    /\ Ids(latest_df) \subseteq existing_ids
    /\ ~Empty(store)
    /\ store = storeAtStart

\* C8: every stored row, and every fetched or scored row of the run, has the
\* label the thresholds give its score: Positive iff score >= 0.05, Negative
\* iff score <= -0.05, Neutral otherwise.
LabelMatchesScore(r) ==
    /\ r.sentiment_label \in {"Positive", "Negative", "Neutral"}
    /\ r.sentiment_label = "Positive" <=> r.sentiment_score >= POS_THRESHOLD
    /\ r.sentiment_label = "Negative" <=> r.sentiment_score <= NEG_THRESHOLD

C8_LabelConsistent ==
    /\ \A i \in 1..Len(store) : LabelMatchesScore(store[i])
    /\ \A i \in 1..Len(all_posts_data) : LabelMatchesScore(all_posts_data[i])
    /\ \A i \in 1..Len(analyzed_df) : LabelMatchesScore(analyzed_df[i])

C8_Witness ==
    /\ \E i \in 1..Len(store) :
           store[i].sentiment_score = POS_THRESHOLD
               /\ store[i].sentiment_label = "Positive"
    /\ \E i \in 1..Len(store) :
           store[i].sentiment_score = NEG_THRESHOLD
               /\ store[i].sentiment_label = "Negative"
    /\ \E i \in 1..Len(store) : store[i].sentiment_label = "Neutral"

\* C9: with the database file absent, or present without the mentions table,
\* the LoadExisting step raises nothing: it ends with an empty existing_df
\* and an empty existing_ids, and the run goes on to FetchLatest.
C9_EmptyStoreLoad ==
    [][(pc = "LoadExisting" /\ dbFile \in {"absent", "notable"} /\ pc' # pc) =>
           /\ pc' = "FetchLatest"
           /\ Empty(existing_df')
           /\ existing_ids' = {}]_vars

C9_Witness ==
    /\ pc = "FetchLatest"
    /\ pairIdx = 0
    /\ fileAtStart = "notable"
    /\ dbFile = "notable"
    /\ Empty(existing_df)
    /\ existing_ids = {}

\* C10: the dashboard's script reaches the filters only with a non-empty
\* loaded frame and the aggregates only with a non-empty filtered frame; with
\* an empty loaded frame it stops in the no-data state, where the retry
\* button is offered; with an empty filtered frame it stops in the warning
\* state; no run of the script raises.
C10_NoDataGuards ==
    /\ dpc # "Raised"
    /\ dpc = "Filters" => ~Empty(df)
    /\ dpc = "Render" => (~Empty(df) /\ ~Empty(filtered_df))
    /\ dpc = "Warning" => (~Empty(df) /\ Empty(filtered_df))
    /\ dpc = "NoData" => (Empty(df) /\ ENABLED DashRetry)
    /\ (dpc \in {"NoData", "Filters", "Warning", "Render"} /\ Empty(df)) =>
           dpc = "NoData"
    /\ (dpc \in {"Warning", "Render"} /\ Empty(filtered_df)) => dpc = "Warning"

C10_Witness ==
    /\ dpc = "Warning"
    /\ Len(df) >= 2
    /\ Empty(filtered_df)
    /\ cache.valid

====
